---- MODULE Spec2Model ----
(***************************************************************************)
(* Model of the thesislang-rs front end: the lexical scanner               *)
(* (LexicalParser), the symbol validator (Symbol), the tree builder        *)
(* (SyntacticParser::parse / try_parse) and the diagnostic value (Error).  *)
(*                                                                         *)
(* A source text is a sequence of characters; a character is a one-element *)
(* string, except the vertical tab, written "VT".  A token text is a       *)
(* sequence of characters.  A formatted message is the sequence of its     *)
(* pieces.                                                                 *)
(***************************************************************************)
EXTENDS Integers, Sequences, FiniteSets, TLC

\* Longest source text explored.
MaxLen == 5
\* Longest raw token handed to the symbol validator.
MaxTok == 3
\* Longest line typed at the interactive prompt.
MaxLine == 3
\* Most children of a List among the trees that are rendered.
MaxWidth == 3
\* Most labels attached to one Error by the builder calls.
MaxLabels == 2

----------------------------------------------------------------------------
\* Characters

VT == "VT"
Openers == {"(", "[", "{"}
Closers == {")", "]", "}"}
Delimiters == Openers \cup Closers
QuoteChars == {"'", "\""}
Separators == {",", ";"}
Backslash == "\\"

\* char::is_ascii_whitespace: space, tab, line feed, form feed, carriage return.
is_ascii_whitespace(ch) == ch \in {" ", "\t", "\n", "\f", "\r"}

\* Source alphabet of the parser runs.
ParseAlphabet == {"(", ")", "[", "]", "a", " ", "\""}
\* Source alphabet of the scanner runs.
LexAlphabet == {"(", ")", "a", " ", "\n", "\"", Backslash, ","}
\* Alphabet of the raw tokens handed to Symbol::try_from.
TokAlphabet == {"a", "-", "(", ")", "[", "]", "{", "}", VT, " ", "\n", "\t", "\""}

RECURSIVE SeqsUpTo(_, _)
SeqsUpTo(S, n) ==
  IF n = 0 THEN {<<>>}
  ELSE LET shorter == SeqsUpTo(S, n - 1)
       IN shorter \cup {Append(s, c) : s \in {t \in shorter : Len(t) = n - 1}, c \in S}

----------------------------------------------------------------------------
\* Token: the bracket mappings

as_left_parentheses(t) ==
  CASE t = ")" -> "("
    [] t = "]" -> "["
    [] t = "}" -> "{"

\* Mutant: the closers of "(" and "[" exchanged.
as_right_parentheses_exchanged(t) ==
  CASE t = "(" -> "]"
    [] t = "[" -> ")"
    [] t = "{" -> "}"

as_right_parentheses(t) ==
  CASE t = "(" -> ")"
    [] t = "[" -> "]"
    [] t = "{" -> "}"

match_left_parentheses(t, other) == other = as_left_parentheses(t)

----------------------------------------------------------------------------
\* SourcePos: (line, column, index)

SourcePos(l, c, i) == [ln |-> l, col |-> c, i |-> i]

next_ln(p) == [ln |-> p.ln + 1, col |-> p.col + 1, i |-> p.i + 1]

next_col(p) == [ln |-> p.ln, col |-> p.col + 1, i |-> p.i + 1]

----------------------------------------------------------------------------
\* LexicalParser

LexicalParser_new ==
  [buf |-> <<>>, pos |-> SourcePos(1, 1, 1), results |-> <<>>, parsing_context |-> 0]

push_token(lx, token) ==
  [lx EXCEPT !.results = Append(@, [pos |-> lx.pos, text |-> token])]

\* Mutant: the buffer is copied into the token instead of taken.
push_buf_as_token_copied(lx) ==
  [lx EXCEPT !.results = Append(@, [pos |-> lx.pos, text |-> lx.buf])]

push_buf_as_token(lx) ==
  [lx EXCEPT !.results = Append(@, [pos |-> lx.pos, text |-> lx.buf]), !.buf = <<>>]

\* Mutant: the emptiness test inverted.
try_collect_buf_inverted(lx) == IF lx.buf = <<>> THEN push_buf_as_token(lx) ELSE lx

try_collect_buf(lx) == IF lx.buf # <<>> THEN push_buf_as_token(lx) ELSE lx

\* Mutant: inside a literal the escape marker does not change the context.
parse_c_dispatch_unescaped(lx, ch) ==
  IF lx.parsing_context = 1 THEN
    LET l1 == [lx EXCEPT !.buf = Append(@, ch)]
    IN IF ch \in QuoteChars THEN [l1 EXCEPT !.parsing_context = 0] ELSE l1
  ELSE IF ch \in Openers THEN push_token(lx, <<ch>>)
  ELSE IF ch \in Closers THEN push_token(try_collect_buf(lx), <<ch>>)
  ELSE IF ch \in Separators THEN push_token(lx, <<ch>>)
  ELSE IF ch \in QuoteChars THEN
    LET l1 == [lx EXCEPT !.buf = Append(@, ch)]
    IN IF lx.parsing_context = 0 THEN [l1 EXCEPT !.parsing_context = 1]
       ELSE IF lx.parsing_context = 2 THEN [l1 EXCEPT !.parsing_context = 1]
       ELSE l1
  ELSE IF is_ascii_whitespace(ch) \/ ch = VT THEN try_collect_buf(lx)
  ELSE [lx EXCEPT !.buf = Append(@, ch)]

\* The match of parse_c, before the position is advanced.
parse_c_dispatch(lx, ch) ==
  IF lx.parsing_context = 1 THEN
    LET l1 == [lx EXCEPT !.buf = Append(@, ch)]
        l2 == IF ch = Backslash THEN [l1 EXCEPT !.parsing_context = 2] ELSE l1
    IN IF ch \in QuoteChars THEN [l2 EXCEPT !.parsing_context = 0] ELSE l2
  ELSE IF ch \in Openers THEN push_token(lx, <<ch>>)
  ELSE IF ch \in Closers THEN push_token(try_collect_buf(lx), <<ch>>)
  ELSE IF ch \in Separators THEN push_token(lx, <<ch>>)
  ELSE IF ch \in QuoteChars THEN
    LET l1 == [lx EXCEPT !.buf = Append(@, ch)]
    IN IF lx.parsing_context = 0 THEN [l1 EXCEPT !.parsing_context = 1]
       ELSE IF lx.parsing_context = 2 THEN [l1 EXCEPT !.parsing_context = 1]
       ELSE l1
  ELSE IF is_ascii_whitespace(ch) \/ ch = VT THEN try_collect_buf(lx)
  ELSE [lx EXCEPT !.buf = Append(@, ch)]

\* Mutant: the two ways of advancing the position exchanged.
parse_c_swapped(lx, ch) ==
  LET d == parse_c_dispatch(lx, ch)
  IN [d EXCEPT !.pos = IF ch # "\n" THEN next_ln(@) ELSE next_col(@)]

parse_c(lx, ch) ==
  LET d == parse_c_dispatch(lx, ch)
  IN [d EXCEPT !.pos = IF ch # "\n" THEN next_col(@) ELSE next_ln(@)]

\* LexicalParser::tokens: the texts of the results.
tokens_of(results) == [k \in 1..Len(results) |-> results[k].text]

----------------------------------------------------------------------------
\* ErrorKind, Error

to_error_code(kind) ==
  CASE kind = "InvalidSyntax" -> "E01"
    [] kind = "FreeIdentifier" -> "E02"
    [] kind = "TypeMismatch" -> "E03"

Error_new(kind) == [kind |-> kind, message |-> <<>>, span |-> <<0, 0>>, labels |-> <<>>]

\* Mutant: the label is put in front of the labels attached earlier.
with_label_front(e, label) == [e EXCEPT !.labels = <<label>> \o @]

with_label(e, label) == [e EXCEPT !.labels = Append(@, label)]

with_message(e, content) == [e EXCEPT !.message = content]

with_span(e, lo, hi) == [e EXCEPT !.span = <<lo, hi>>]

\* impl From<(ErrorKind, S)> for Error
Error_from(kind, content) ==
  [kind |-> kind, message |-> content, span |-> <<0, 0>>, labels |-> <<>>]

\* impl Display for Error: "{kind:?}: {message}"
Error_to_string(e) == <<e.kind, ": ">> \o e.message

\* No error was built (the value of err while a parse runs or after it succeeds).
NoError == [kind |-> "None", message |-> <<>>, span |-> <<0, 0>>, labels |-> <<>>]

\* A piece of label text with its colour, and a label text made of pieces.
Piece(text, colour) == [text |-> text, fg |-> colour]
LabelText(colour, pieces) == [fg |-> colour, pieces |-> pieces]

\* ariadne::Label::new((id, lo..hi)) with its colour, message and order (0 unless set).
Label(id, lo, hi, colour, text, order) ==
  [src |-> id, span |-> <<lo, hi>>, colour |-> colour, text |-> text, order |-> order]

\* The report report_error builds before printing it: code, message, the primary
\* label over the error's span, then the error's own labels in their order.
build_report(e, id, pos, label) ==
  [code |-> to_error_code(e.kind),
   message |-> e.message,
   offset |-> pos.i,
   labels |-> <<Label(id, e.span[1], e.span[2], "Red", label, 0)>> \o e.labels]

NoReport == [code |-> "none", message |-> <<>>, offset |-> 0, labels |-> <<>>]

\* Error::return_error: the error handed back with the same report attached.
return_error(e, id, pos, label) == [err |-> e, report |-> build_report(e, id, pos, label)]

----------------------------------------------------------------------------
\* Symbol

\* Mutant: the vertical tab is missing from the rejected characters.
validate_token_without_vt(token) ==
  \A k \in 1..Len(token) :
    ~(token[k] \in {"(", ")", "[", "]", "{", "}"} \/ is_ascii_whitespace(token[k]))

validate_token(token) ==
  \A k \in 1..Len(token) :
    ~(token[k] \in {"(", ")", "[", "]", "{", "}", VT} \/ is_ascii_whitespace(token[k]))

\* impl TryFrom<Token> for Symbol
Symbol_try_from(token) ==
  IF validate_token(token)
  THEN [ok |-> TRUE, symbol |-> token, err |-> NoError]
  ELSE [ok |-> FALSE, symbol |-> <<>>,
        err |-> Error_from("InvalidSyntax",
                           <<"Unsupported literal appeared in symbol '">> \o token \o <<"'.">>)]

----------------------------------------------------------------------------
\* Node: List, Symbol and the String literal case

List(items) == [kind |-> "List", items |-> items, text |-> <<>>]
Symbol(text) == [kind |-> "Symbol", items |-> <<>>, text |-> text]
String(text) == [kind |-> "String", items |-> <<>>, text |-> text]

\* The node a cursor (a path of child indices from the root) refers to.
RECURSIVE NodeAt(_, _)
NodeAt(t, path) == IF path = <<>> THEN t ELSE NodeAt(t.items[Head(path)], Tail(path))

\* Mutant: the new child is put in front of the others.
RECURSIVE AppendAt_front(_, _, _)
AppendAt_front(t, path, node) ==
  IF path = <<>> THEN [t EXCEPT !.items = <<node>> \o @]
  ELSE [t EXCEPT !.items[Head(path)] = AppendAt_front(@, Tail(path), node)]

RECURSIVE AppendAt(_, _, _)
AppendAt(t, path, node) ==
  IF path = <<>> THEN [t EXCEPT !.items = Append(@, node)]
  ELSE [t EXCEPT !.items[Head(path)] = AppendAt(@, Tail(path), node)]

\* Mutant: the result refers to the first child, not to the one just pushed.
Node_push_first(t, path, node) ==
  IF NodeAt(t, path).kind # "List"
  THEN [ok |-> FALSE, tree |-> t, child |-> path]
  ELSE [ok |-> TRUE, tree |-> AppendAt(t, path, node), child |-> Append(path, 1)]

\* Node::push on the node at `path`: as_mut panics unless it is a List; the
\* result refers to the new last child.
Node_push(t, path, node) ==
  IF NodeAt(t, path).kind # "List"
  THEN [ok |-> FALSE, tree |-> t, child |-> path]
  ELSE [ok |-> TRUE, tree |-> AppendAt(t, path, node),
        child |-> Append(path, Len(NodeAt(t, path).items) + 1)]

\* Mutant: the walk goes one level too deep (the depth before the decrement).
RECURSIVE walk_last_stale(_, _, _)
walk_last_stale(t, path, n) ==
  IF n < 0 THEN [ok |-> TRUE, path |-> path]
  ELSE LET node == NodeAt(t, path)
       IN IF node.kind # "List" THEN walk_last_stale(t, path, n - 1)
          ELSE IF node.items = <<>> THEN [ok |-> TRUE, path |-> path]
          ELSE walk_last_stale(t, Append(path, Len(node.items)), n - 1)

\* The cursor recomputed after a close: from the root, `n` times into the last
\* child of a List (last_mut().unwrap() panics on an empty List; a node that is
\* no List is left as it is).
RECURSIVE walk_last(_, _, _)
walk_last(t, path, n) ==
  IF n <= 0 THEN [ok |-> TRUE, path |-> path]
  ELSE LET node == NodeAt(t, path)
       IN IF node.kind # "List" THEN walk_last(t, path, n - 1)
          ELSE IF node.items = <<>> THEN [ok |-> FALSE, path |-> path]
          ELSE walk_last(t, Append(path, Len(node.items)), n - 1)

\* impl Display for Node, as the sequence of the characters written.
RECURSIVE Node_to_string(_)
RECURSIVE join_rest(_, _)

\* Mutant: the middle children are written without the space after each.
RECURSIVE join_rest_unspaced(_, _)
join_rest_unspaced(nodes, k) ==
  IF k > Len(nodes) - 1 THEN <<>>
  ELSE Node_to_string(nodes[k]) \o join_rest_unspaced(nodes, k + 1)

\* Mutant: a List of one child is written with a space before the closing parenthesis.
RECURSIVE Node_to_string_padded(_)
Node_to_string_padded(n) ==
  IF n.kind = "List" THEN
    IF n.items = <<>> THEN <<"(", ")">>
    ELSE IF Len(n.items) = 1
    THEN <<"(">> \o Node_to_string_padded(n.items[1]) \o <<" ", ")">>
    ELSE <<"(">> \o Node_to_string_padded(n.items[1]) \o <<" ">>
         \o join_rest(n.items, 2)
         \o Node_to_string_padded(n.items[Len(n.items)]) \o <<")">>
  ELSE n.text

join_rest(nodes, k) ==
  IF k > Len(nodes) - 1 THEN <<>>
  ELSE Node_to_string(nodes[k]) \o <<" ">> \o join_rest(nodes, k + 1)
Node_to_string(n) ==
  IF n.kind = "List" THEN
    IF n.items = <<>> THEN <<"(", ")">>
    ELSE IF Len(n.items) = 1 THEN <<"(">> \o Node_to_string(n.items[1]) \o <<")">>
    ELSE <<"(">> \o Node_to_string(n.items[1]) \o <<" ">>
         \o join_rest(n.items, 2)
         \o Node_to_string(n.items[Len(n.items)]) \o <<")">>
  ELSE n.text

----------------------------------------------------------------------------
\* SyntacticParser: the pieces of parse and try_parse

SrcId == "<stdin>"

first_quoted(s) == s[1] \in QuoteChars

\* try_unquote: the slice s[1..s.len()-1] panics when the token is one character.
try_unquote(s) ==
  LET first == s[1]
      end == s[Len(s)]
  IN IF first = end
     THEN IF Len(s) - 1 < 1
          THEN [res |-> "Panic", text |-> <<>>, err |-> NoError]
          ELSE [res |-> "Ok", text |-> SubSeq(s, 2, Len(s) - 1), err |-> NoError]
     ELSE [res |-> "Err", text |-> <<>>, err |-> Error_new("InvalidSyntax")]

\* Mutant: the span starts at the closer's 1-based index instead of one before it.
no_opener_error_shifted(pos, token) ==
  [err |-> with_span(
             with_message(Error_new("InvalidSyntax"),
               <<"No corresponding '", as_left_parentheses(token),
                 "' can be found for '", token, "'.">>),
             pos.i, pos.i + 1),
   pos |-> pos,
   label |-> LabelText("none", <<Piece("Invalid '", "none"), Piece(token, "none"),
                                 Piece("' here.", "none")>>)]

\* The diagnostic for a closer met with no opener on the stack.
no_opener_error(pos, token) ==
  [err |-> with_span(
             with_message(Error_new("InvalidSyntax"),
               <<"No corresponding '", as_left_parentheses(token),
                 "' can be found for '", token, "'.">>),
             pos.i - 1, pos.i),
   pos |-> pos,
   label |-> LabelText("none", <<Piece("Invalid '", "none"), Piece(token, "none"),
                                 Piece("' here.", "none")>>)]

\* The diagnostic for a closer that does not match the opener `last` on top of the stack.
mismatch_error(pos, token, last) ==
  [err |-> with_label(
             with_span(
               with_message(Error_new("InvalidSyntax"),
                 <<"'", as_right_parentheses(last.text),
                   "' is required, but only to found '", token, "'">>),
               pos.i - 1, pos.i),
             Label(SrcId, last.pos.i - 1, last.pos.i, "Fixed86",
                   LabelText("Cyan", <<Piece("Opening delimiter '", "none"),
                                       Piece(last.text, "Red"),
                                       Piece("' occurred here.", "Cyan")>>),
                   1)),
   pos |-> pos,
   label |-> LabelText("Red", <<Piece("Invalid closing '", "none"), Piece(token, "Fixed81"),
                                Piece("' here", "Red"), Piece(".", "none")>>)]

\* Mutant: the first (outermost) entry of the stack instead of the last.
unclosed_opener_first(stack) == stack[1]

\* The opener the end-of-input diagnostic is about.
unclosed_opener(stack) == stack[Len(stack)]

\* The diagnostic for delimiters still open at the end of the tokens.
unclosed_error(last) ==
  [err |-> with_span(
             with_message(Error_new("InvalidSyntax"),
               <<"No corresponding '", as_right_parentheses(last.text),
                 "' for '", last.text, "' was found.">>),
             last.pos.i - 1, last.pos.i),
   pos |-> last.pos,
   label |-> LabelText("none", <<Piece("Single '", "none"), Piece(last.text, "Red"),
                                 Piece("' found here.", "none")>>)]

----------------------------------------------------------------------------
\* State

VARIABLES
  source,    \* SrcInfo.text: the characters of the source unit
  mode,      \* "parse" (fail-fast) or "try_parse" (error returned), or "symbol"
  pc,        \* "lex": parse_str runs; "tokens": the token loop runs; "done"
             \* ("untraced": the token loop of parse_untraced runs)
  idx,       \* characters of source consumed by parse_str
  lexer,     \* the LexicalParser
  tk,        \* tokens processed by the token loop
  nest,      \* (nesting depth, stack of (SourcePos, opener))
  tree,      \* SyntacticParser.tree
  current,   \* the insertion cursor, as the path of child indices from the root
  outcome,   \* "Running", "Ok", "Err" (Err returned), "Exit" (reported, exit(1)), "Panic"
  err,       \* the Error built by a failing parse
  report,    \* the report attached to the error or printed by report_error
  token,     \* the raw token handed to Symbol::try_from
  symbol,    \* the result of Symbol::try_from
  session,   \* the interactive loop: "none", "prompt", "reading", "exited", "crashed"
  evaluated, \* the tree Interpreter::read handed to eval for the current line
  printed,   \* the reports Interpreter::read printed for the current line
  rendered,  \* the text written by Display for Node
  first,     \* the tree that was rendered, kept while its rendering is parsed again
  earlier,   \* the result of the run before this one over the same source text
  command,   \* the Command (its flags and positional args) match_with is called on
  args,      \* the command-line arguments handed to match_with
  matched    \* what match_with returned

vars == <<source, mode, pc, idx, lexer, tk, nest, tree, current, outcome, err, report,
          token, symbol, session, evaluated, printed, rendered, first, earlier, command, args, matched>>

\* What the parser's own steps leave alone.
aux == <<session, evaluated, printed, rendered, first, earlier, command, args, matched>>

\* No command line is matched.
NoCommand == [args |-> <<>>, pos_args |-> <<>>]
NoMatch == [res |-> "none", results |-> <<>>, err |-> NoError, interrupted |-> FALSE]

\* No tree (nothing evaluated, nothing rendered yet).
NoTree == [kind |-> "None", items |-> <<>>, text |-> <<>>]

\* No run came before this one.
NoRun == [mode |-> "none", outcome |-> "none", err |-> NoError, report |-> NoReport,
          tree |-> NoTree]

\* No interpreter and no rendering is involved.
Idle ==
  /\ session = "none"
  /\ evaluated = NoTree
  /\ printed = <<>>
  /\ rendered = <<>>
  /\ first = NoTree
  /\ earlier = NoRun
  /\ command = NoCommand
  /\ args = <<>>
  /\ matched = NoMatch

NoSymbol == [ok |-> FALSE, symbol |-> <<>>, err |-> NoError]

ParserStart ==
  /\ pc = "lex"
  /\ idx = 0
  /\ lexer = LexicalParser_new
  /\ tk = 0
  /\ nest = [depth |-> 0, stack |-> <<>>]
  /\ tree = List(<<>>)
  /\ current = <<>>
  /\ outcome = "Running"
  /\ err = NoError
  /\ report = NoReport
  /\ token = <<>>
  /\ symbol = NoSymbol

\* A SyntacticParser freshly built over a source text, about to parse it.
Init ==
  /\ source \in SeqsUpTo(ParseAlphabet, MaxLen) \cup SeqsUpTo(Delimiters, MaxLen - 1)
  /\ mode \in {"parse", "try_parse"}
  /\ ParserStart
  /\ Idle

\* A LexicalParser freshly built, about to scan a source text with parse_str.
InitLex ==
  /\ source \in SeqsUpTo(LexAlphabet, MaxLen)
  /\ mode = "lex"
  /\ ParserStart
  /\ Idle

\* A raw token about to be converted with Symbol::try_from.
InitSymbol ==
  /\ token \in SeqsUpTo(TokAlphabet, MaxTok)
  /\ mode = "symbol"
  /\ pc = "symbol"
  /\ source = <<>>
  /\ idx = 0
  /\ lexer = LexicalParser_new
  /\ tk = 0
  /\ nest = [depth |-> 0, stack |-> <<>>]
  /\ tree = List(<<>>)
  /\ current = <<>>
  /\ outcome = "Running"
  /\ err = NoError
  /\ report = NoReport
  /\ symbol = NoSymbol
  /\ Idle

----------------------------------------------------------------------------
\* parse_str: one parse_c per character, then the final flush

ParseC ==
  /\ pc = "lex"
  /\ idx < Len(source)
  /\ lexer' = parse_c(lexer, source[idx + 1])
  /\ idx' = idx + 1
  /\ UNCHANGED <<source, mode, pc, tk, nest, tree, current, outcome, err, report,
                 token, symbol>>
  /\ UNCHANGED aux

ParseStrEnd ==
  /\ pc = "lex"
  /\ idx = Len(source)
  /\ lexer' = try_collect_buf(lexer)
  /\ pc' = IF mode = "lex" THEN "done"
           ELSE IF mode = "parse_untraced" THEN "untraced"
           ELSE "tokens"
  /\ UNCHANGED <<source, mode, idx, tk, nest, tree, current, outcome, err, report,
                 token, symbol>>
  /\ UNCHANGED aux

----------------------------------------------------------------------------
\* The token loop of parse / try_parse

Tokens == lexer.results
HasToken == pc = "tokens" /\ outcome = "Running" /\ tk < Len(Tokens)
Tok == Tokens[tk + 1]
IsOpener(t) == t.text \in {<<"(">>, <<"[">>, <<"{">>}
IsCloser(t) == t.text \in {<<")">>, <<"]">>, <<"}">>}

\* A diagnostic d = (err, pos, label) ends the parse: report_error prints the
\* report and exits in parse; return_error hands the error back in try_parse.
Fail(d) ==
  /\ pc' = "done"
  /\ IF mode = "parse"
     THEN /\ outcome' = "Exit"
          /\ err' = d.err
          /\ report' = build_report(d.err, SrcId, d.pos, d.label)
     ELSE /\ outcome' = "Err"
          /\ err' = return_error(d.err, SrcId, d.pos, d.label).err
          /\ report' = return_error(d.err, SrcId, d.pos, d.label).report

Panic ==
  /\ pc' = "done"
  /\ outcome' = "Panic"
  /\ UNCHANGED <<err, report>>

OpenToken ==
  /\ HasToken
  /\ IsOpener(Tok)
  /\ LET pushed == Node_push(tree, current, List(<<>>))
     IN IF pushed.ok
        THEN /\ nest' = [depth |-> nest.depth + 1,
                         stack |-> Append(nest.stack, [pos |-> Tok.pos, text |-> Tok.text[1]])]
             /\ tree' = pushed.tree
             /\ current' = pushed.child
             /\ tk' = tk + 1
             /\ UNCHANGED <<pc, outcome, err, report>>
        ELSE /\ Panic
             /\ nest' = [nest EXCEPT !.depth = @ + 1]
             /\ UNCHANGED <<tree, current, tk>>
  /\ UNCHANGED <<source, mode, idx, lexer, token, symbol>>
  /\ UNCHANGED aux

CloseNoOpener ==
  /\ HasToken
  /\ IsCloser(Tok)
  /\ nest.stack = <<>>
  /\ nest' = [nest EXCEPT !.depth = @ - 1]
  /\ Fail(no_opener_error(Tok.pos, Tok.text[1]))
  /\ UNCHANGED <<source, mode, idx, lexer, tk, tree, current, token, symbol>>
  /\ UNCHANGED aux

CloseMismatch ==
  /\ HasToken
  /\ IsCloser(Tok)
  /\ nest.stack # <<>>
  /\ ~match_left_parentheses(Tok.text[1], nest.stack[Len(nest.stack)].text)
  /\ nest' = [nest EXCEPT !.depth = @ - 1]
  /\ Fail(mismatch_error(Tok.pos, Tok.text[1], nest.stack[Len(nest.stack)]))
  /\ UNCHANGED <<source, mode, idx, lexer, tk, tree, current, token, symbol>>
  /\ UNCHANGED aux

CloseMatch ==
  /\ HasToken
  /\ IsCloser(Tok)
  /\ nest.stack # <<>>
  /\ match_left_parentheses(Tok.text[1], nest.stack[Len(nest.stack)].text)
  /\ nest' = [depth |-> nest.depth - 1, stack |-> SubSeq(nest.stack, 1, Len(nest.stack) - 1)]
  /\ LET walked == walk_last(tree, <<>>, nest.depth - 1)
     IN IF walked.ok
        THEN /\ current' = walked.path
             /\ tk' = tk + 1
             /\ UNCHANGED <<pc, outcome, err, report>>
        ELSE /\ Panic
             /\ UNCHANGED <<current, tk>>
  /\ UNCHANGED <<source, mode, idx, lexer, tree, token, symbol>>
  /\ UNCHANGED aux

\* try_parse only: a token that starts with a quote becomes a String node.
QuotedToken ==
  /\ HasToken
  /\ mode = "try_parse"
  /\ ~IsOpener(Tok) /\ ~IsCloser(Tok)
  /\ first_quoted(Tok.text)
  /\ LET unquoted == try_unquote(Tok.text)
         pushed == Node_push(tree, current, String(unquoted.text))
     IN IF unquoted.res = "Ok" /\ pushed.ok
        THEN /\ tree' = pushed.tree
             /\ tk' = tk + 1
             /\ UNCHANGED <<pc, outcome, err, report>>
        ELSE IF unquoted.res = "Err"
        THEN /\ pc' = "done"
             /\ outcome' = "Err"
             /\ err' = unquoted.err
             /\ UNCHANGED <<tree, tk, report>>
        ELSE /\ Panic
             /\ UNCHANGED <<tree, tk>>
  /\ UNCHANGED <<source, mode, idx, lexer, nest, current, token, symbol>>
  /\ UNCHANGED aux

SymbolToken ==
  /\ HasToken
  /\ ~IsOpener(Tok) /\ ~IsCloser(Tok)
  /\ mode = "try_parse" => ~first_quoted(Tok.text)
  /\ LET converted == Symbol_try_from(Tok.text)
         pushed == Node_push(tree, current, Symbol(converted.symbol))
     IN IF converted.ok /\ pushed.ok
        THEN /\ tree' = pushed.tree
             /\ tk' = tk + 1
             /\ UNCHANGED <<pc, outcome, err, report>>
        ELSE /\ Panic
             /\ UNCHANGED <<tree, tk>>
  /\ UNCHANGED <<source, mode, idx, lexer, nest, current, token, symbol>>
  /\ UNCHANGED aux

\* Mutant: one open delimiter is let through.
unbalanced_above_one(n) == n.depth > 1

\* The test made after the last token.
unbalanced(n) == n.depth # 0

\* After the last token: the check of the nesting depth.
EndOfTokens ==
  /\ pc = "tokens" /\ outcome = "Running" /\ tk = Len(Tokens)
  /\ IF unbalanced(nest)
     THEN IF nest.stack = <<>>
          THEN Panic
          ELSE Fail(unclosed_error(unclosed_opener(nest.stack)))
     ELSE /\ pc' = "done"
          /\ outcome' = "Ok"
          /\ UNCHANGED <<err, report>>
  /\ UNCHANGED <<source, mode, idx, lexer, tk, nest, tree, current, token, symbol>>
  /\ UNCHANGED aux

Next ==
  \/ ParseC
  \/ ParseStrEnd
  \/ OpenToken
  \/ CloseNoOpener
  \/ CloseMismatch
  \/ CloseMatch
  \/ QuotedToken
  \/ SymbolToken
  \/ EndOfTokens

Spec == Init /\ [][Next]_vars

\* The scanner alone.
NextLex == ParseC \/ ParseStrEnd

SpecLex == InitLex /\ [][NextLex]_vars

\* Symbol::try_from applied to a raw token.
TryFrom ==
  /\ pc = "symbol"
  /\ symbol' = Symbol_try_from(token)
  /\ pc' = "done"
  /\ UNCHANGED <<source, mode, idx, lexer, tk, nest, tree, current, outcome, err, report,
                 token>>
  /\ UNCHANGED aux

NextSymbol == TryFrom

SpecSymbol == InitSymbol /\ [][NextSymbol]_vars

----------------------------------------------------------------------------
\* A fresh SyntacticParser (SyntacticParser::new) replacing the one that ran.
ParserRestart ==
  /\ pc' = "lex"
  /\ idx' = 0
  /\ lexer' = LexicalParser_new
  /\ tk' = 0
  /\ nest' = [depth |-> 0, stack |-> <<>>]
  /\ tree' = List(<<>>)
  /\ current' = <<>>
  /\ outcome' = "Running"
  /\ err' = NoError
  /\ report' = NoReport
  /\ token' = <<>>
  /\ symbol' = NoSymbol

----------------------------------------------------------------------------
\* Rendering the tree of a successful parse and parsing the rendered text

\* Display for Node has a case for List and for Symbol only.
RECURSIVE NoStringNode(_)
NoStringNode(n) ==
  /\ n.kind # "String"
  /\ \A k \in 1..Len(n.items) : NoStringNode(n.items[k])

\* The tree of a finished parse is written with Display and the text is handed
\* to a fresh parser of the same kind.
Rerender ==
  /\ mode \in {"parse", "try_parse"}
  /\ session = "none"
  /\ pc = "done"
  /\ outcome = "Ok"
  /\ first = NoTree
  /\ NoStringNode(tree)
  /\ rendered' = Node_to_string(tree)
  /\ first' = tree
  /\ source' = Node_to_string(tree)
  /\ ParserRestart
  /\ UNCHANGED <<mode, session, evaluated, printed, earlier, command, args, matched>>

NextRoundTrip == Next \/ Rerender

SpecRoundTrip == Init /\ [][NextRoundTrip]_vars

----------------------------------------------------------------------------
\* Display for Node applied to a tree

Leaves == {Symbol(<<"a">>), Symbol(<<"b">>), Symbol(<<"c">>), Symbol(<<"d", "e">>)}

\* Flat lists, then lists of leaves and flat lists.
FlatLists == {List(items) : items \in SeqsUpTo({Symbol(<<"a">>)}, MaxWidth)}
Trees == Leaves \cup {List(items) : items \in SeqsUpTo(Leaves \cup FlatLists, MaxWidth)}

InitRender ==
  /\ tree \in Trees
  /\ mode = "render"
  /\ pc = "render"
  /\ source = <<>>
  /\ idx = 0
  /\ lexer = LexicalParser_new
  /\ tk = 0
  /\ nest = [depth |-> 0, stack |-> <<>>]
  /\ current = <<>>
  /\ outcome = "Running"
  /\ err = NoError
  /\ report = NoReport
  /\ token = <<>>
  /\ symbol = NoSymbol
  /\ Idle

\* to_string(): the tree written with Display.
Render ==
  /\ pc = "render"
  /\ rendered' = Node_to_string(tree)
  /\ pc' = "done"
  /\ UNCHANGED <<source, mode, idx, lexer, tk, nest, tree, current, outcome, err, report,
                 token, symbol, session, evaluated, printed, first, earlier, command, args, matched>>

NextRender == Render

SpecRender == InitRender /\ [][NextRender]_vars

----------------------------------------------------------------------------
\* Interpreter: run_interactive and read

ReplAlphabet == {"(", ")", "]", "a", " ", "\""}

Exit == <<"e", "x", "i", "t">>

\* The lines typed at the prompt, without the line feed read_line keeps.
Lines == SeqsUpTo(ReplAlphabet, MaxLine) \cup {Exit, <<" ">> \o Exit}

\* str::trim: white space removed at both ends.
RECURSIVE trim_start(_)
trim_start(s) ==
  IF s # <<>> /\ (is_ascii_whitespace(Head(s)) \/ Head(s) = VT)
  THEN trim_start(Tail(s)) ELSE s

RECURSIVE trim_end(_)
trim_end(s) ==
  IF s # <<>> /\ (is_ascii_whitespace(s[Len(s)]) \/ s[Len(s)] = VT)
  THEN trim_end(SubSeq(s, 1, Len(s) - 1)) ELSE s

trim(s) == trim_end(trim_start(s))

\* Context::eval on the term of a tree: a term without sub-terms reduces as a
\* leaf that is no symbol; otherwise the front sub-term is looked up when it is
\* a symbol, and nothing is ever bound in the environment.
eval(t) ==
  IF t.items = <<>> THEN [ok |-> TRUE, err |-> NoError, report |-> NoReport]
  ELSE IF t.items[1].kind = "Symbol"
  THEN LET failed == return_error(
                       with_message(Error_new("FreeIdentifier"),
                         <<"Failed to resolve '">> \o t.items[1].text \o <<"'.">>),
                       SrcId, SourcePos(0, 0, 0), LabelText("none", <<>>))
       IN [ok |-> FALSE, err |-> failed.err, report |-> failed.report]
  ELSE [ok |-> TRUE, err |-> NoError, report |-> NoReport]

InitRepl ==
  /\ source = <<>>
  /\ mode = "try_parse"
  /\ ParserStart
  /\ session = "prompt"
  /\ evaluated = NoTree
  /\ printed = <<>>
  /\ rendered = <<>>
  /\ first = NoTree
  /\ earlier = NoRun
  /\ command = NoCommand
  /\ args = <<>>
  /\ matched = NoMatch

\* One turn of the loop up to try_parse: the prompt, read_line, trim, the test
\* for "exit", then read() builds a parser over the line.
ReadLine ==
  /\ session = "prompt"
  /\ \E typed \in Lines :
       LET line == trim(typed \o <<"\n">>)
       IN /\ source' = line
          /\ IF line = Exit
             THEN /\ session' = "exited"
                  /\ UNCHANGED <<pc, idx, lexer, tk, nest, tree, current, outcome, err,
                                 report, token, symbol, evaluated, printed>>
             ELSE /\ session' = "reading"
                  /\ ParserRestart
                  /\ evaluated' = NoTree
                  /\ printed' = <<>>
  /\ UNCHANGED <<mode, rendered, first, earlier, command, args, matched>>

\* A panic inside try_parse unwinds through read and run_interactive.
ReadPanic ==
  /\ session = "reading"
  /\ pc = "done"
  /\ outcome = "Panic"
  /\ session' = "crashed"
  /\ UNCHANGED <<source, mode, pc, idx, lexer, tk, nest, tree, current, outcome, err,
                 report, token, symbol, evaluated, printed, rendered, first, earlier, command, args, matched>>

\* read() after try_parse returned: the report of an Err is unwrapped and
\* printed, then the parser's tree is taken with reset() and evaluated, and the
\* report of a failed evaluation is printed.
ReadFinish ==
  /\ session = "reading"
  /\ pc = "done"
  /\ outcome \in {"Ok", "Err"}
  /\ IF outcome = "Err" /\ report = NoReport
     THEN /\ session' = "crashed"
          /\ UNCHANGED <<evaluated, printed>>
     ELSE LET shown == IF outcome = "Err" THEN <<report>> ELSE <<>>
              result == eval(tree)
          IN /\ evaluated' = tree
             /\ printed' = IF result.ok THEN shown ELSE Append(shown, result.report)
             /\ session' = "prompt"
  /\ UNCHANGED <<source, mode, pc, idx, lexer, tk, nest, tree, current, outcome, err,
                 report, token, symbol, rendered, first, earlier, command, args, matched>>

NextRepl == Next \/ ReadLine \/ ReadPanic \/ ReadFinish

SpecRepl == InitRepl /\ [][NextRepl]_vars

----------------------------------------------------------------------------
\* A second run over the same source text

AgainAlphabet == {"(", ")", "]", "a", " ", "\""}

\* A SyntacticParser freshly built over a short source text.
InitShort ==
  /\ source \in SeqsUpTo(AgainAlphabet, MaxLen - 1)
  /\ mode \in {"parse", "try_parse"}
  /\ ParserStart
  /\ Idle

\* What a finished run leaves for the comparison with the next one.
ThisRun == [mode |-> mode, outcome |-> outcome, err |-> err, report |-> report,
            tree |-> tree]

\* parse or try_parse called once more on the same SyntacticParser: nest,
\* current and the scanner are locals built anew, self.tree is the field the
\* call before left.
ParseAgain ==
  /\ mode \in {"parse", "try_parse"}
  /\ session = "none"
  /\ first = NoTree
  /\ earlier = NoRun
  /\ pc = "done"
  /\ outcome \in {"Ok", "Err"}
  /\ earlier' = ThisRun
  /\ mode' \in {"parse", "try_parse"}
  /\ pc' = "lex"
  /\ idx' = 0
  /\ lexer' = LexicalParser_new
  /\ tk' = 0
  /\ nest' = [depth |-> 0, stack |-> <<>>]
  /\ current' = <<>>
  /\ outcome' = "Running"
  /\ err' = NoError
  /\ report' = NoReport
  /\ UNCHANGED <<source, tree, token, symbol, session, evaluated, printed, rendered, first, command, args, matched>>

NextReuse == Next \/ ParseAgain

SpecReuse == InitShort /\ [][NextReuse]_vars

----------------------------------------------------------------------------
\* The same source text parsed again by another entry point, each time with
\* a SyntacticParser of its own

\* After parse, try_parse over the same text, or the other way round.
OtherMode ==
  /\ mode \in {"parse", "try_parse"}
  /\ session = "none"
  /\ first = NoTree
  /\ earlier = NoRun
  /\ pc = "done"
  /\ earlier' = ThisRun
  /\ mode' = IF mode = "parse" THEN "try_parse" ELSE "parse"
  /\ ParserRestart
  /\ UNCHANGED <<source, session, evaluated, printed, rendered, first, command, args, matched>>

\* After try_parse, the text is scanned again and its tokens are handed to
\* parse_untraced.
StartUntraced ==
  /\ mode = "try_parse"
  /\ session = "none"
  /\ first = NoTree
  /\ earlier = NoRun
  /\ pc = "done"
  /\ earlier' = ThisRun
  /\ mode' = "parse_untraced"
  /\ ParserRestart
  /\ UNCHANGED <<source, session, evaluated, printed, rendered, first, command, args, matched>>

HasUntraced == pc = "untraced" /\ outcome = "Running" /\ tk < Len(Tokens)

UntracedOpen ==
  /\ HasUntraced
  /\ IsOpener(Tok)
  /\ LET pushed == Node_push(tree, current, List(<<>>))
     IN IF pushed.ok
        THEN /\ nest' = [depth |-> nest.depth + 1,
                         stack |-> Append(nest.stack, [pos |-> Tok.pos, text |-> Tok.text[1]])]
             /\ tree' = pushed.tree
             /\ current' = pushed.child
             /\ tk' = tk + 1
             /\ UNCHANGED <<pc, outcome, err, report>>
        ELSE /\ Panic
             /\ nest' = [nest EXCEPT !.depth = @ + 1]
             /\ UNCHANGED <<tree, current, tk>>
  /\ UNCHANGED <<source, mode, idx, lexer, token, symbol>>
  /\ UNCHANGED aux

\* Mutant: the depth is decremented but the opener stays on the stack.
untraced_close_unpopped(n) == [n EXCEPT !.depth = @ - 1]

\* Mutant: the opener is popped but the depth is left as it was.
untraced_close_deep(n) == [n EXCEPT !.stack = SubSeq(n.stack, 1, Len(n.stack) - 1)]

\* The depth and the stack after a closer in parse_untraced: the closer is
\* not compared with the opener it closes.
untraced_close(n) ==
  [depth |-> n.depth - 1, stack |-> SubSeq(n.stack, 1, Len(n.stack) - 1)]

UntracedClose ==
  /\ HasUntraced
  /\ IsCloser(Tok)
  /\ IF nest.stack = <<>>
     THEN /\ nest' = [nest EXCEPT !.depth = @ - 1]
          /\ Panic
          /\ UNCHANGED <<current, tk>>
     ELSE /\ nest' = untraced_close(nest)
          /\ LET walked == walk_last(tree, <<>>, untraced_close(nest).depth)
             IN IF walked.ok
                THEN /\ current' = walked.path
                     /\ tk' = tk + 1
                     /\ UNCHANGED <<pc, outcome, err, report>>
                ELSE /\ Panic
                     /\ UNCHANGED <<current, tk>>
  /\ UNCHANGED <<source, mode, idx, lexer, tree, token, symbol>>
  /\ UNCHANGED aux

UntracedSymbol ==
  /\ HasUntraced
  /\ ~IsOpener(Tok) /\ ~IsCloser(Tok)
  /\ LET converted == Symbol_try_from(Tok.text)
         pushed == Node_push(tree, current, Symbol(converted.symbol))
     IN IF converted.ok /\ pushed.ok
        THEN /\ tree' = pushed.tree
             /\ tk' = tk + 1
             /\ UNCHANGED <<pc, outcome, err, report>>
        ELSE /\ Panic
             /\ UNCHANGED <<tree, tk>>
  /\ UNCHANGED <<source, mode, idx, lexer, nest, current, token, symbol>>
  /\ UNCHANGED aux

\* parse_untraced returns after the last token without looking at the depth.
UntracedEnd ==
  /\ pc = "untraced" /\ outcome = "Running" /\ tk = Len(Tokens)
  /\ pc' = "done"
  /\ outcome' = "Ok"
  /\ UNCHANGED <<source, mode, idx, lexer, tk, nest, tree, current, err, report,
                 token, symbol>>
  /\ UNCHANGED aux

NextModes ==
  \/ Next
  \/ OtherMode
  \/ StartUntraced
  \/ UntracedOpen
  \/ UntracedClose
  \/ UntracedSymbol
  \/ UntracedEnd

SpecModes == InitShort /\ [][NextModes]_vars

----------------------------------------------------------------------------
\* Error: new, then any chain of builder calls

ErrorKinds == {"InvalidSyntax", "FreeIdentifier", "TypeMismatch"}

SomeMessages == {<<>>, <<"No corresponding '", "(", "' can be found for '", ")", "'.">>,
                 <<"Failed to resolve '", "a", "'.">>}

SomeSpans == {<<0, 0>>, <<0, 1>>, <<1, 2>>}

SomeLabels ==
  {Label(SrcId, 0, 1, "Fixed86", LabelText("Cyan", <<Piece("Opening delimiter '", "none")>>), 1),
   Label(SrcId, 1, 2, "Red", LabelText("none", <<Piece("Invalid '", "none")>>), 0)}

InitError ==
  /\ err \in {Error_new(kind) : kind \in ErrorKinds}
  /\ mode = "error"
  /\ pc = "error"
  /\ source = <<>>
  /\ idx = 0
  /\ lexer = LexicalParser_new
  /\ tk = 0
  /\ nest = [depth |-> 0, stack |-> <<>>]
  /\ tree = List(<<>>)
  /\ current = <<>>
  /\ outcome = "Running"
  /\ report = NoReport
  /\ token = <<>>
  /\ symbol = NoSymbol
  /\ Idle

ErrorFrame ==
  UNCHANGED <<source, mode, pc, idx, lexer, tk, nest, tree, current, outcome, report,
              token, symbol, session, evaluated, printed, rendered, first, earlier, command, args, matched>>

WithLabel ==
  /\ pc = "error"
  /\ Len(err.labels) < MaxLabels
  /\ \E label \in SomeLabels : err' = with_label(err, label)
  /\ ErrorFrame

WithMessage ==
  /\ pc = "error"
  /\ \E content \in SomeMessages : err' = with_message(err, content)
  /\ ErrorFrame

WithSpan ==
  /\ pc = "error"
  /\ \E span \in SomeSpans : err' = with_span(err, span[1], span[2])
  /\ ErrorFrame

NextError == WithLabel \/ WithMessage \/ WithSpan

SpecError == InitError /\ [][NextError]_vars

-----------------------------------------------------------------------------
\* The command line: Arg, Parameter and Command::match_with

MaxArgs == 3

\* A string is the sequence of its characters; "\0" is the missing short id
\* and the missing prefix.
NUL == "NUL"

starts_with(s, prefix) ==
  /\ Len(s) >= Len(prefix)
  /\ SubSeq(s, 1, Len(prefix)) = prefix

\* s[n..]: the string without its first n characters.
StrFrom(s, n) == SubSeq(s, n + 1, Len(s))

\* enum Parameter.
No == [kind |-> "No", default |-> <<>>]
Optional(default) == [kind |-> "Optional", default |-> default]
Required == [kind |-> "Required", default |-> <<>>]

\* impl From<Parameter> for u8.
Parameter_into_u8(p) ==
  IF p.kind = "No" THEN 0 ELSE IF p.kind = "Optional" THEN 1 ELSE 2

\* Arg::new: an id that starts with "--" is a flag (prefix '-', optional, no
\* parameter); any other id is a positional arg with a Required parameter.
\* (A flag id shorter than four characters panics; no id here is that short.)
Arg_new(id) ==
  LET flag == starts_with(id, <<"-", "-">>)
  IN [id |-> id, short |-> NUL, optional |-> flag, interrupt |-> FALSE,
      parameterized |-> IF flag THEN No ELSE Required,
      prefix |-> IF flag THEN "-" ELSE NUL]

parameterize(arg, parameterized) == [arg EXCEPT !.parameterized = parameterized]

short_id(arg, ch) == [arg EXCEPT !.short = ch]

interrupt(arg) == [arg EXCEPT !.interrupt = TRUE]

\* Arg::try_get_parameter: parameter is the next argument, <<>> when there is
\* none and <<p>> when it is p.  A Required parameter that is missing panics.
try_get_parameter(arg, parameter) ==
  IF arg.parameterized.kind = "No" THEN [panic |-> FALSE, value |-> <<>>]
  ELSE IF arg.parameterized.kind = "Optional"
  THEN [panic |-> FALSE,
        value |-> IF parameter = <<>> THEN arg.parameterized.default ELSE parameter[1]]
  ELSE IF parameter = <<>> THEN [panic |-> TRUE, value |-> <<>>]
  ELSE [panic |-> FALSE, value |-> parameter[1]]

\* HashMap: a function from the keys it holds; insert replaces the value of a
\* key that is there already.
EmptyMap == [k \in {} |-> <<>>]

insert(map, key, value) ==
  [k \in DOMAIN map \cup {key} |-> IF k = key THEN value ELSE map[k]]

contains_key(map, key) == key \in DOMAIN map

\* Command::new and Command::add_arg: a flag is entered under its id and, if
\* it has a short id, under "-<short>"; a positional arg is appended.
Command_new == [args |-> EmptyMap, pos_args |-> <<>>]

add_arg(cmd, arg) ==
  IF arg.prefix # NUL
  THEN LET long == insert(cmd.args, arg.id, arg)
       IN [cmd EXCEPT !.args = IF arg.short # NUL
                                THEN insert(long, <<"-", arg.short>>, arg)
                                ELSE long]
  ELSE [cmd EXCEPT !.pos_args = Append(@, arg)]

\* Vec::get(i): the element as <<x>>, or <<>> past the end (i counts from 1 here).
get(v, i) == IF i <= Len(v) THEN <<v[i]>> ELSE <<>>

\* The ErrorKind match_with fails with.
CommandFailed == "CommandFailed"

required_not_found(id) ==
  <<"Error: Required argument '">> \o id \o <<"' was not found.">>

\* What match_with ends with: Ok(results), Err(err) or a panic.  interrupted
\* tells that the return was the one taken at an interrupt flag.
MatchOk(results, interrupted) ==
  [res |-> "Ok", results |-> results, err |-> NoError, interrupted |-> interrupted]
MatchErr(error) ==
  [res |-> "Err", results |-> EmptyMap, err |-> error, interrupted |-> FALSE]
MatchPanic == [res |-> "Panic", results |-> EmptyMap, err |-> NoError, interrupted |-> FALSE]

\* Mutant: an arg counts as required when it is optional.
is_required_inverted(arg) == arg.optional

\* `!arg.optional` in the loop over the positional args.
is_required(arg) == ~arg.optional

\* The loop over self.pos_args: counts the required args, remembers the id of
\* the latest one, and gives each arg the next positional parameter while
\* there is one.
RECURSIVE match_positional(_, _, _, _, _, _, _)
match_positional(pos_args, j, pos_parameters, used_pos_arg, required_pos_arg, required_arg_id, results) ==
  IF j > Len(pos_args)
  THEN IF used_pos_arg < required_pos_arg
       THEN MatchErr(with_message(Error_new(CommandFailed),
                                  required_not_found(required_arg_id)))
       ELSE MatchOk(results, FALSE)
  ELSE LET arg == pos_args[j]
           required == IF is_required(arg) THEN required_pos_arg + 1 ELSE required_pos_arg
           id == IF is_required(arg) THEN arg.id ELSE required_arg_id
       IN IF used_pos_arg >= Len(pos_parameters)
          THEN match_positional(pos_args, j + 1, pos_parameters, used_pos_arg,
                                required, id, results)
          ELSE match_positional(pos_args, j + 1, pos_parameters, used_pos_arg + 1,
                                required, id,
                                insert(results, arg.id, pos_parameters[used_pos_arg + 1]))

\* What follows the loop over the arguments.
after_args(cmd, expect_flag, pos_parameters, results) ==
  IF expect_flag = 2 THEN MatchPanic
  ELSE IF Len(pos_parameters) > Len(cmd.pos_args) THEN MatchPanic
  ELSE match_positional(cmd.pos_args, 1, pos_parameters, 0, 0, <<>>, results)

\* The loop over the arguments, from argument i on.  The argument after a flag
\* that takes a parameter (expect_flag 1 or 2) ends the loop: `break`.
RECURSIVE match_args(_, _, _, _, _, _)
match_args(cmd, argv, i, expect_flag, pos_parameters, results) ==
  IF i > Len(argv) THEN after_args(cmd, expect_flag, pos_parameters, results)
  ELSE IF expect_flag = 1 \/ expect_flag = 2
  THEN after_args(cmd, 0, pos_parameters, results)
  ELSE IF contains_key(cmd.args, argv[i])
  THEN LET arg == cmd.args[argv[i]]
           parameter == try_get_parameter(arg, get(argv, i + 1))
           added == insert(results, StrFrom(arg.id, 2), parameter.value)
       IN IF contains_key(results, StrFrom(arg.id, 1)) THEN MatchPanic
          ELSE IF parameter.panic THEN MatchPanic
          ELSE IF arg.interrupt THEN MatchOk(added, TRUE)
          ELSE match_args(cmd, argv, i + 1, Parameter_into_u8(arg.parameterized),
                          pos_parameters, added)
  ELSE match_args(cmd, argv, i + 1, expect_flag, Append(pos_parameters, argv[i]), results)

match_with(cmd, argv) == match_args(cmd, argv, 1, 0, <<>>, EmptyMap)

\* The commands of the tests (command_match_with_1, command_match_with_2) and
\* of main.
Str_help == <<"-", "-", "h", "e", "l", "p">>
Str_version == <<"-", "-", "v", "e", "r", "s", "i", "o", "n">>
Str_output == <<"-", "-", "o", "u", "t", "p", "u", "t">>
Str_target == <<"-", "-", "t", "a", "r", "g", "e", "t">>
Str_script == <<"s", "c", "r", "i", "p", "t">>
Str_ast == <<"\"", "a", "s", "t", "\"">>

TestCommand1 ==
  add_arg(add_arg(Command_new,
    interrupt(parameterize(short_id(Arg_new(Str_help), "h"), Optional(<<"\"", "\"">>)))),
    interrupt(short_id(Arg_new(Str_version), "v")))

TestCommand2 ==
  add_arg(add_arg(Command_new,
    interrupt(short_id(Arg_new(Str_version), "v"))),
    Arg_new(Str_script))

MainCommand ==
  add_arg(add_arg(add_arg(add_arg(add_arg(Command_new,
    interrupt(short_id(Arg_new(Str_help), "h"))),
    interrupt(short_id(Arg_new(Str_version), "v"))),
    parameterize(short_id(Arg_new(Str_output), "o"), Required)),
    parameterize(Arg_new(Str_target), Optional(Str_ast))),
    parameterize(Arg_new(Str_script), Optional(<<"-">>)))

\* A command with a flag as Arg::new leaves it (no parameter, no interrupt),
\* an interrupt flag and a positional arg.
Str_verbose == <<"-", "-", "v", "e", "r", "b", "o", "s", "e">>

PlainFlagCommand ==
  add_arg(add_arg(add_arg(Command_new,
    Arg_new(Str_verbose)),
    interrupt(short_id(Arg_new(Str_version), "v"))),
    Arg_new(Str_script))

Commands == {TestCommand1, TestCommand2, MainCommand, PlainFlagCommand}

\* The arguments tried: flags by id and by short id, and two plain words.
ArgWords == {Str_help, <<"-", "h">>, Str_version, Str_output, Str_target, Str_verbose,
             <<"x">>, <<"y">>}

InitCommand ==
  /\ command \in Commands
  /\ args \in SeqsUpTo(ArgWords, MaxArgs)
  /\ matched = NoMatch
  /\ mode = "match_with"
  /\ pc = "match_with"
  /\ source = <<>>
  /\ idx = 0
  /\ lexer = LexicalParser_new
  /\ tk = 0
  /\ nest = [depth |-> 0, stack |-> <<>>]
  /\ tree = List(<<>>)
  /\ current = <<>>
  /\ outcome = "Running"
  /\ err = NoError
  /\ report = NoReport
  /\ token = <<>>
  /\ symbol = NoSymbol
  /\ session = "none"
  /\ evaluated = NoTree
  /\ printed = <<>>
  /\ rendered = <<>>
  /\ first = NoTree
  /\ earlier = NoRun

\* command.match_with(args).
MatchWith ==
  /\ pc = "match_with"
  /\ matched' = match_with(command, args)
  /\ pc' = "done"
  /\ UNCHANGED <<source, mode, idx, lexer, tk, nest, tree, current, outcome, err, report,
                 token, symbol, session, evaluated, printed, rendered, first, earlier,
                 command, args>>

NextCommand == MatchWith

SpecCommand == InitCommand /\ [][NextCommand]_vars

----------------------------------------------------------------------------
\* Vocabulary of the properties

\* The fixed pairing of the delimiters.
CloserFor(o) == IF o = "(" THEN ")" ELSE IF o = "[" THEN "]" ELSE "}"
OpenerFor(c) == IF c = ")" THEN "(" ELSE IF c = "]" THEN "[" ELSE "{"

QuoteFree(src) == \A k \in 1..Len(src) : src[k] \notin QuoteChars

\* The 1-based offsets of the delimiter characters of a text, in order.
RECURSIVE DelimOffsets(_, _)
DelimOffsets(src, k) ==
  IF k > Len(src) THEN <<>>
  ELSE (IF src[k] \in Delimiters THEN <<k>> ELSE <<>>) \o DelimOffsets(src, k + 1)

\* How many of the first n tokens are delimiter tokens.
RECURSIVE DelimTokens(_, _)
DelimTokens(toks, n) ==
  IF n = 0 THEN 0
  ELSE DelimTokens(toks, n - 1) + (IF IsOpener(toks[n]) \/ IsCloser(toks[n]) THEN 1 ELSE 0)

RECURSIVE CountTokens(_, _, _)
CountTokens(toks, n, texts) ==
  IF n = 0 THEN 0
  ELSE CountTokens(toks, n - 1, texts) + (IF toks[n].text \in texts THEN 1 ELSE 0)
NOpeners == CountTokens(Tokens, Len(Tokens), {<<"(">>, <<"[">>, <<"{">>})
NClosers == CountTokens(Tokens, Len(Tokens), {<<")">>, <<"]">>, <<"}">>})

\* span is the one-character range over the character c at 1-based offset k of the source.
CoversChar(span, k, c) ==
  /\ span = <<k - 1, k>>
  /\ k \in 1..Len(source)
  /\ source[k] = c

\* In a text without quotes, token number n (a delimiter token) stands at offset k.
DelimTokenAt(n, k) ==
  QuoteFree(source) => k = DelimOffsets(source, 1)[DelimTokens(Tokens, n)]

\* The parse failed with a diagnostic: returned by try_parse, reported by parse.
Diagnosed == outcome = (IF mode = "parse" THEN "Exit" ELSE "Err")

\* The parse ended while token tk + 1 was being processed.
StoppedAtToken == pc = "done" /\ tk < Len(Tokens)
\* The parse ended after the last token.
StoppedAtEnd == pc = "done" /\ mode \in {"parse", "try_parse"} /\ tk = Len(Tokens)

Top == nest.stack[Len(nest.stack)]

----------------------------------------------------------------------------
\* C1: a closer that does not match the opener on top of the stack fails the
\* parse at that token with an InvalidSyntax diagnostic whose message names the
\* expected closer (the one matching the top opener) and the closer found,
\* whose primary span covers exactly the found closer, and which carries exactly
\* one secondary label, over the one character of the top opener, ordered after
\* the primary label.
AtMismatch ==
  /\ StoppedAtToken
  /\ IsCloser(Tok)
  /\ nest.stack # <<>>
  /\ Top.text # OpenerFor(Tok.text[1])

C1_State ==
  AtMismatch =>
    /\ Diagnosed
    /\ err.kind = "InvalidSyntax"
    /\ Len(err.message) = 5
    /\ err.message[2] = CloserFor(Top.text)
    /\ err.message[4] = Tok.text[1]
    /\ CoversChar(err.span, Tok.pos.i, Tok.text[1])
    /\ DelimTokenAt(tk + 1, Tok.pos.i)
    /\ Len(err.labels) = 1
    /\ CoversChar(err.labels[1].span, Top.pos.i, Top.text)
    /\ Top.pos.i < Tok.pos.i
    /\ Len(report.labels) = 2
    /\ report.labels[1].span = err.span
    /\ report.labels[2] = err.labels[1]
    /\ report.labels[2].order > report.labels[1].order

C1_Step ==
  (HasToken /\ IsCloser(Tok) /\ nest.stack # <<>> /\ Top.text # OpenerFor(Tok.text[1])) =>
    /\ pc' = "done"
    /\ tk' = tk
    /\ outcome' = (IF mode = "parse" THEN "Exit" ELSE "Err")

C1_MismatchDiagnostic == []C1_State /\ [][C1_Step]_vars

C1_Witness ==
  /\ AtMismatch
  /\ mode = "try_parse"
  /\ outcome = "Err"
  /\ Len(nest.stack) = 2
  /\ Top.text = "["
  /\ Tok.text = <<")">>

----------------------------------------------------------------------------
\* C2: when the tokens end with a delimiter still open, the parse fails with an
\* InvalidSyntax diagnostic about the innermost open opener (the last opener
\* token with only balanced tokens after it), and the primary span covers
\* exactly that opener.
RECURSIVE Balance(_, _)
Balance(toks, from) ==
  IF from > Len(toks) THEN 0
  ELSE Balance(toks, from + 1)
       + (IF IsOpener(toks[from]) THEN 1 ELSE IF IsCloser(toks[from]) THEN -1 ELSE 0)

InnermostOpen(toks) ==
  CHOOSE j \in 1..Len(toks) :
    /\ IsOpener(toks[j])
    /\ Balance(toks, j + 1) = 0
    /\ \A k \in (j + 1)..Len(toks) : ~(IsOpener(toks[k]) /\ Balance(toks, k + 1) = 0)

AtUnclosedEnd == StoppedAtEnd /\ nest.stack # <<>>

C2_UnclosedDiagnostic ==
  AtUnclosedEnd =>
    LET j == InnermostOpen(Tokens)
    IN /\ Diagnosed
       /\ err.kind = "InvalidSyntax"
       /\ CoversChar(err.span, Tokens[j].pos.i, Tokens[j].text[1])
       /\ DelimTokenAt(j, Tokens[j].pos.i)
       /\ err.message[4] = Tokens[j].text[1]
       /\ err.message[2] = CloserFor(Tokens[j].text[1])
       /\ report.labels[1].span = err.span

C2_Witness ==
  /\ AtUnclosedEnd
  /\ outcome = "Err"
  /\ Len(nest.stack) = 2
  /\ nest.stack[1].text = "("
  /\ Top.text = "["
  /\ err.span[2] > nest.stack[1].pos.i

----------------------------------------------------------------------------
\* C3: in try_parse a closer met with an empty stack fails with an
\* InvalidSyntax diagnostic whose primary span covers exactly that closer, and
\* the parse stops there: the failing step changes neither the tree nor the
\* stack, and nothing changes once the parse has ended.
AtNoOpener ==
  /\ StoppedAtToken
  /\ mode = "try_parse"
  /\ IsCloser(Tok)
  /\ nest.stack = <<>>

C3_State ==
  AtNoOpener =>
    /\ outcome = "Err"
    /\ err.kind = "InvalidSyntax"
    /\ CoversChar(err.span, Tok.pos.i, Tok.text[1])
    /\ DelimTokenAt(tk + 1, Tok.pos.i)
    /\ err.labels = <<>>
    /\ report.labels[1].span = err.span

C3_Step ==
  /\ (HasToken /\ mode = "try_parse" /\ IsCloser(Tok) /\ nest.stack = <<>>)
       => (outcome' = "Err" /\ pc' = "done" /\ tk' = tk /\ tree' = tree
           /\ nest'.stack = nest.stack)
  /\ outcome # "Running" => UNCHANGED <<tk, tree, nest, outcome, err, report>>

C3_NoOpenerStops == []C3_State /\ [][C3_Step]_vars

C3_Witness ==
  /\ AtNoOpener
  /\ outcome = "Err"
  /\ tk = 2
  /\ tk + 1 < Len(Tokens)
  /\ Tok.text = <<"]">>

----------------------------------------------------------------------------
----------------------------------------------------------------------------
\* The nesting of a token sequence, by recursive descent: the forms from token
\* k up to the closer that ends the list they are in (or the end of the tokens).
\* A token that is no delimiter, as a leaf: a Symbol, or, where `strings` is set,
\* a String without its first and last character when it starts with a quote.
Leaf(text, strings) ==
  IF strings /\ text[1] \in QuoteChars
  THEN String(SubSeq(text, 2, Len(text) - 1))
  ELSE Symbol(text)

RECURSIVE Forms(_, _, _)
Forms(toks, k, strings) ==
  IF k > Len(toks) \/ IsCloser(toks[k]) THEN [items |-> <<>>, next |-> k]
  ELSE IF IsOpener(toks[k])
  THEN LET inner == Forms(toks, k + 1, strings)
           rest == Forms(toks, inner.next + 1, strings)
       IN [items |-> <<List(inner.items)>> \o rest.items, next |-> rest.next]
  ELSE LET rest == Forms(toks, k + 1, strings)
       IN [items |-> <<Leaf(toks[k].text, strings)>> \o rest.items, next |-> rest.next]

\* C5 as stated: the tree of an accepted text is the nesting of its tokens,
\* every token that is no delimiter being a Symbol.
C5_TreeIsNestingOfSymbols ==
  (pc = "done" /\ outcome = "Ok") =>
    tree = List(Forms(Tokens, 1, FALSE).items)

\* C5 as amended: the tree of an accepted text is the nesting of its tokens:
\* the root List holds the top-level forms in token order, an opener starts a
\* new child List in the innermost open list, a closer ends it, and every other
\* token is appended to the innermost open list in arrival order, as a Symbol,
\* except that try_parse makes a token that starts with a quote a String node
\* holding the text between its first and last character.
C5_TreeIsNesting ==
  (pc = "done" /\ outcome = "Ok") =>
    tree = List(Forms(Tokens, 1, mode = "try_parse").items)

C5_Witness ==
  /\ pc = "done"
  /\ outcome = "Ok"
  /\ tree = List(<<List(<<List(<<>>), Symbol(<<"a">>)>>)>>)

----------------------------------------------------------------------------
\* Vocabulary of the scanner properties

AsciiWhitespace == {" ", "\t", "\n", "\f", "\r"}
Blank(c) == c \in AsciiWhitespace \cup {VT}
\* A character that goes to the pending buffer outside a literal.
TextChar(c) == ~Blank(c) /\ c \notin Delimiters \cup Separators
IsDelimiterText(t) == Len(t) = 1 /\ t[1] \in Delimiters
Scanned == tokens_of(lexer.results)
Consumed == SubSeq(source, 1, idx)

----------------------------------------------------------------------------
\* C6: in a text without quotes every delimiter character becomes its own
\* one-character token, in order, and no other token holds a delimiter or a
\* whitespace character (nor is empty); after a whitespace character nothing is
\* pending; the text pending before a closer is the token just before the
\* closer's token.
C6_DelimitersSplit ==
  (mode = "lex" /\ QuoteFree(source)) =>
    LET offs == DelimOffsets(Consumed, 1)
    IN /\ SelectSeq(Scanned, IsDelimiterText) = [k \in 1..Len(offs) |-> <<source[offs[k]]>>]
       /\ \A k \in 1..Len(Scanned) :
            /\ Scanned[k] # <<>>
            /\ \/ IsDelimiterText(Scanned[k])
               \/ \A j \in 1..Len(Scanned[k]) :
                    Scanned[k][j] \notin Delimiters /\ ~Blank(Scanned[k][j])
       /\ (idx >= 1 /\ Blank(source[idx])) => lexer.buf = <<>>
       /\ (idx >= 2 /\ source[idx] \in Closers /\ TextChar(source[idx - 1])) =>
            /\ lexer.buf = <<>>
            /\ Len(Scanned) >= 2
            /\ Scanned[Len(Scanned)] = <<source[idx]>>
            /\ ~IsDelimiterText(Scanned[Len(Scanned) - 1])
            /\ Scanned[Len(Scanned) - 1][Len(Scanned[Len(Scanned) - 1])] = source[idx - 1]

C6_Witness ==
  /\ mode = "lex"
  /\ pc = "done"
  /\ source = <<"(", "a", ")", " ", "(">>
  /\ Scanned = << <<"(">>, <<"a">>, <<")">>, <<"(">> >>

----------------------------------------------------------------------------
\* C7 (for texts without quotes): the tokens can be laid over the source in
\* order, each on a contiguous stretch equal to its text, each a single
\* delimiter or separator character or a maximal run of characters that are
\* neither whitespace nor delimiters.
RunChar(c) == ~Blank(c) /\ c \notin Delimiters
RunEdge(c) == Blank(c) \/ c \in Delimiters \cup Separators

TokenFits(t, s) ==
  LET e == s + Len(t) - 1
  IN /\ t # <<>>
     /\ e <= Len(source)
     /\ SubSeq(source, s, e) = t
     /\ \/ Len(t) = 1 /\ t[1] \in Delimiters \cup Separators
        \/ /\ \A j \in 1..Len(t) : RunChar(t[j])
           /\ s = 1 \/ RunEdge(source[s - 1])
           /\ e = Len(source) \/ RunEdge(source[e + 1])

RECURSIVE InSourceOrder(_, _, _)
InSourceOrder(toks, k, from) ==
  \/ k > Len(toks)
  \/ \E s \in from..Len(source) :
       TokenFits(toks[k], s) /\ InSourceOrder(toks, k + 1, s + Len(toks[k]))

C7_TokensInSourceOrder ==
  (mode = "lex" /\ pc = "done" /\ QuoteFree(source)) => InSourceOrder(Scanned, 1, 1)

----------------------------------------------------------------------------
\* C8: parse_str is total: it can always take its next step until it has
\* returned, each step consumes exactly one character and advances the offset
\* by one, and it returns with every character consumed and the pending buffer
\* empty, text that was still pending having become the last token.
C8_State ==
  mode = "lex" =>
    /\ idx <= Len(source)
    /\ lexer.pos.i = idx + 1
    /\ pc \in {"lex", "done"}
    /\ pc = "lex" => ENABLED NextLex
    /\ pc = "done" => (idx = Len(source) /\ lexer.buf = <<>>)

C8_Step ==
  mode = "lex" =>
    /\ (pc = "lex" /\ idx < Len(source)) => (idx' = idx + 1 /\ pc' = "lex")
    /\ (pc = "lex" /\ idx = Len(source)) =>
         /\ pc' = "done"
         /\ tokens_of(lexer'.results) =
              Scanned \o (IF lexer.buf # <<>> THEN <<lexer.buf>> ELSE <<>>)

C8_ScannerTotal == []C8_State /\ [][C8_Step]_vars

C8_Witness ==
  /\ mode = "lex"
  /\ pc = "done"
  /\ lexer.parsing_context = 1
  /\ Len(source) = 5
  /\ Scanned = << <<"(">>, <<"\"", "a", " ", "(">> >>

----------------------------------------------------------------------------
\* C9: in try_parse a token that is no delimiter, does not start with a quote
\* and fails the symbol validation ends the parse with the validator's
\* InvalidSyntax error returned as Err.
AtInvalidSymbol ==
  /\ StoppedAtToken
  /\ mode = "try_parse"
  /\ ~IsOpener(Tok) /\ ~IsCloser(Tok)
  /\ ~first_quoted(Tok.text)
  /\ \E j \in 1..Len(Tok.text) : Tok.text[j] \in Delimiters \/ Blank(Tok.text[j])

C9_ValidationErrorReturned ==
  AtInvalidSymbol =>
    /\ outcome = "Err"
    /\ err.kind = "InvalidSyntax"
    /\ err.message = <<"Unsupported literal appeared in symbol '">> \o Tok.text \o <<"'.">>

----------------------------------------------------------------------------
\* C10: Symbol::try_from accepts a token exactly when none of its characters is
\* a delimiter, the vertical tab or an ASCII whitespace character; it then
\* returns the token text unchanged, and otherwise an InvalidSyntax error.
Rejected == {"(", ")", "[", "]", "{", "}", VT} \cup AsciiWhitespace

C10_SymbolValidation ==
  (mode = "symbol" /\ pc = "done") =>
    /\ symbol.ok <=> (\A j \in 1..Len(token) : token[j] \notin Rejected)
    /\ symbol.ok => symbol.symbol = token
    /\ ~symbol.ok => symbol.err.kind = "InvalidSyntax"

C10_Witness ==
  /\ mode = "symbol"
  /\ pc = "done"
  /\ token = <<"a", VT, "a">>
  /\ ~symbol.ok

----------------------------------------------------------------------------
\* Vocabulary of the claims about literals: the scanner's three contexts and
\* the place where a literal opens in the consumed text.
Normal == 0
InLiteral == 1
PendingEscape == 2

Scanning == mode = "lex" /\ pc = "lex"

\* The quote at offset j opens a literal: nothing before it is a quote or an
\* escape marker.
OpenQuoteAt(j) ==
  /\ j \in 1..idx
  /\ source[j] \in QuoteChars
  /\ \A i \in 1..(j - 1) : source[i] \notin QuoteChars /\ source[i] # Backslash

\* The text s ends with the characters lo..hi of the source.
EndsWithSource(s, lo, hi) ==
  /\ Len(s) >= hi - lo + 1
  /\ SubSeq(s, Len(s) - (hi - lo), Len(s)) = SubSeq(source, lo, hi)

----------------------------------------------------------------------------
\* C11: in the PendingEscape context the next character, whatever it is, is
\* appended to the pending buffer as a literal character, no token is emitted,
\* and the context becomes InLiteral: PendingEscape lasts one character and is
\* never followed directly by Normal.
C11_EscapeOneCharacter ==
  [][(Scanning /\ idx < Len(source) /\ lexer.parsing_context = PendingEscape) =>
       /\ lexer'.parsing_context = InLiteral
       /\ lexer'.buf = Append(lexer.buf, source[idx + 1])
       /\ lexer'.results = lexer.results]_vars

----------------------------------------------------------------------------
\* C12: inside a quoted literal, a quote that immediately follows the escape
\* marker does not close the literal, and the text kept for the token holds the
\* escape marker and the quote exactly as written.
EscapedQuoteAt(j) ==
  /\ OpenQuoteAt(j)
  /\ j + 1 <= idx - 1
  /\ source[idx - 1] = Backslash
  /\ source[idx] \in QuoteChars
  /\ \A i \in (j + 1)..(idx - 2) : source[i] \notin QuoteChars /\ source[i] # Backslash

C12_EscapedQuoteKept ==
  mode = "lex" =>
    \A j \in 1..idx :
      EscapedQuoteAt(j) =>
        /\ lexer.parsing_context = InLiteral
        /\ pc = "lex" =>
             /\ EndsWithSource(lexer.buf, j, idx)
             /\ \A k \in 1..Len(Scanned) : lexer.results[k].pos.i <= j
        /\ (pc = "done" /\ idx = Len(source)) =>
             /\ Scanned # <<>>
             /\ EndsWithSource(Scanned[Len(Scanned)], j, idx)

C12_Witness ==
  /\ mode = "lex"
  /\ pc = "done"
  /\ source = <<"a", "\"", "a", Backslash, "\"">>
  /\ EscapedQuoteAt(2)
  /\ Scanned = <<source>>

----------------------------------------------------------------------------
\* C13: from the opening quote of a literal until the literal is closed, every
\* consumed character is appended to the pending buffer and no token is
\* emitted; the literal is closed by the first quote that does not immediately
\* follow an escape marker.
StillOpenFrom(j) ==
  /\ OpenQuoteAt(j)
  /\ \A i \in (j + 1)..idx : source[i] \notin QuoteChars

ClosedFrom(j) ==
  /\ OpenQuoteAt(j)
  /\ j < idx
  /\ source[idx] \in QuoteChars
  /\ source[idx - 1] # Backslash
  /\ \A i \in (j + 1)..(idx - 1) : source[i] \notin QuoteChars

C13_LiteralOneToken ==
  Scanning =>
    \A j \in 1..idx :
      /\ StillOpenFrom(j) =>
           /\ EndsWithSource(lexer.buf, j, idx)
           /\ \A k \in 1..Len(Scanned) : lexer.results[k].pos.i <= j
      /\ ClosedFrom(j) =>
           /\ lexer.parsing_context = Normal
           /\ EndsWithSource(lexer.buf, j, idx)

----------------------------------------------------------------------------
\* C14: the scanner advances the position once per consumed character, by the
\* new-line advance exactly when the character is a line feed: after k
\* characters holding n line feeds the offset is 1 + k and the line is 1 + n,
\* and line, column and offset never decrease.
RECURSIVE NewLines(_)
NewLines(s) ==
  IF s = <<>> THEN 0 ELSE (IF Head(s) = "\n" THEN 1 ELSE 0) + NewLines(Tail(s))

C14_State ==
  mode = "lex" =>
    /\ lexer.pos.i = 1 + idx
    /\ lexer.pos.ln = 1 + NewLines(Consumed)

C14_Step ==
  mode = "lex" =>
    /\ lexer'.pos.ln >= lexer.pos.ln
    /\ lexer'.pos.col >= lexer.pos.col
    /\ lexer'.pos.i >= lexer.pos.i
    /\ idx' = idx + 1 =>
         /\ lexer'.pos.i = lexer.pos.i + 1
         /\ lexer'.pos.ln = lexer.pos.ln + 1 <=> source[idx + 1] = "\n"
         /\ lexer'.pos.ln = lexer.pos.ln <=> source[idx + 1] # "\n"
    /\ idx' = idx => lexer'.pos = lexer.pos

C14_PositionTracksInput == []C14_State /\ [][C14_Step]_vars

C14_Witness ==
  /\ mode = "lex"
  /\ pc = "done"
  /\ source = <<"a", "\n", "(", "\n", "a">>
  /\ lexer.pos.ln = 3
  /\ lexer.pos.i = 6

----------------------------------------------------------------------------
\* C15: the new-line advance adds one to the line, sets the column back to its
\* start-of-line value (1) and adds one to the offset; the same-line advance
\* adds one to the column and to the offset and leaves the line unchanged.
C15_AdvanceVariants ==
  [][(Scanning /\ idx < Len(source)) =>
       IF source[idx + 1] = "\n"
       THEN /\ lexer'.pos.ln = lexer.pos.ln + 1
            /\ lexer'.pos.col = 1
            /\ lexer'.pos.i = lexer.pos.i + 1
       ELSE /\ lexer'.pos.ln = lexer.pos.ln
            /\ lexer'.pos.col = lexer.pos.col + 1
            /\ lexer'.pos.i = lexer.pos.i + 1]_vars

----------------------------------------------------------------------------
\* C16: for every text that parses successfully to a tree T, parsing the
\* rendered text of T succeeds and yields a tree structurally equal to T.
Reparsed == first # NoTree /\ QuoteFree(rendered)

----------------------------------------------------------------------------
\* C17: for a well-formed, balanced, literal-free text, the rendering of its
\* parse is the text in canonical form: delimiters written as parentheses, the
\* pieces separated by single spaces, no space inside a parenthesis.
NormalizedToken(t) ==
  IF t \in {<<"(">>, <<"[">>, <<"{">>} THEN <<"(">>
  ELSE IF t \in {<<")">>, <<"]">>, <<"}">>} THEN <<")">>
  ELSE t

\* The tokens from the k-th on, normalized and joined: one space between two
\* tokens unless the first opens or the second closes.
RECURSIVE Canonical(_, _)
Canonical(toks, k) ==
  IF k > Len(toks) THEN <<>>
  ELSE NormalizedToken(toks[k])
       \o (IF k < Len(toks) /\ NormalizedToken(toks[k]) # <<"(">>
              /\ NormalizedToken(toks[k + 1]) # <<")">>
           THEN <<" ">> ELSE <<>>)
       \o Canonical(toks, k + 1)

WellFormed ==
  /\ mode \in {"parse", "try_parse"}
  /\ first = NoTree
  /\ pc = "done"
  /\ outcome = "Ok"
  /\ QuoteFree(source)

\* No opening delimiter directly follows a character of text.
NoTextBeforeOpener ==
  \A i \in 1..(Len(source) - 1) : source[i + 1] \in Openers => ~TextChar(source[i])

----------------------------------------------------------------------------
\* C18: a List is written as "(", its children written the same way and
\* separated by exactly one space, then ")", with no space after "(" or before
\* ")": "()" for no child, "(x)" for one, "(a b c)" for three; a Symbol is
\* written as its text.
RECURSIVE Written(_)
RECURSIVE Spaced(_)
Spaced(nodes) ==
  IF nodes = <<>> THEN <<>>
  ELSE IF Len(nodes) = 1 THEN Written(nodes[1])
  ELSE Written(Head(nodes)) \o <<" ">> \o Spaced(Tail(nodes))
Written(n) ==
  IF n.kind = "List" THEN <<"(">> \o Spaced(n.items) \o <<")">> ELSE n.text

C18_DisplayForm ==
  (mode = "render" /\ pc = "done") =>
    /\ rendered = Written(tree)
    /\ tree = List(<<>>) => rendered = <<"(", ")">>
    /\ tree = List(<<Symbol(<<"a">>)>>) => rendered = <<"(", "a", ")">>
    /\ tree = List(<<Symbol(<<"a">>), Symbol(<<"b">>), Symbol(<<"c">>)>>)
         => rendered = <<"(", "a", " ", "b", " ", "c", ")">>
    /\ tree = Symbol(<<"d", "e">>) => rendered = <<"d", "e">>

C18_Witness ==
  /\ mode = "render"
  /\ pc = "done"
  /\ tree = List(<<List(<<Symbol(<<"a">>)>>), Symbol(<<"d", "e">>), List(<<>>)>>)
  /\ rendered = <<"(", "(", "a", ")", " ", "d", "e", " ", "(", ")", ")">>

----------------------------------------------------------------------------
\* C19: when a parse fails the caller receives exactly one diagnostic and the
\* partially built tree is discarded: Interpreter::read does not evaluate a
\* tree produced by a failed try_parse.
C19_FailedParseDiscarded ==
  (session = "prompt" /\ outcome = "Err" /\ tree.items # <<>>) =>
    /\ evaluated = NoTree
    /\ printed = <<report>>

----------------------------------------------------------------------------
\* C20: in interactive use a line that fails to parse has its diagnostic
\* printed and the session goes on to the next prompt; the only line that ends
\* the process is "exit".
\* Every token of the line that starts with a quote is a literal with its
\* closing quote.
ClosedLiterals ==
  \A k \in 1..Len(Tokens) :
    first_quoted(Tokens[k].text) => try_unquote(Tokens[k].text).res = "Ok"

C20_OnlyExitTerminates ==
  /\ (session \in {"exited", "crashed"} /\ ClosedLiterals) =>
       (session = "exited" /\ source = Exit)
  /\ (session = "prompt" /\ outcome = "Err") => (printed # <<>> /\ printed[1] = report)

----------------------------------------------------------------------------
\* C21: no mutable state crosses parse invocations: every call of parse or
\* try_parse, a later call on the same SyntacticParser included, starts from a
\* fresh scanner, an empty opener stack, depth 0, the cursor at the root and an
\* empty root list, so the tree of an accepted text is the nesting of the
\* tokens of that text alone.
C21_FreshEachCall ==
  mode \in {"parse", "try_parse"} =>
    /\ (pc = "lex" /\ idx = 0) =>
         /\ lexer = LexicalParser_new
         /\ nest = [depth |-> 0, stack |-> <<>>]
         /\ current = <<>>
         /\ tree = List(<<>>)
    /\ (pc = "done" /\ outcome = "Ok") =>
         tree = List(Forms(Tokens, 1, mode = "try_parse").items)

----------------------------------------------------------------------------
\* C22: Error::new(kind) has that kind, an empty message, the span 0..0 and
\* no labels, and prints as "<Kind>: "; with_message and with_span replace
\* their own field only, with_label appends the label after the labels
\* attached earlier, and every builder call leaves the kind and the other
\* fields as they were.
SameBut(e, d, field) ==
  /\ e.kind = d.kind
  /\ field # "message" => e.message = d.message
  /\ field # "span" => e.span = d.span
  /\ field # "labels" => e.labels = d.labels

C22_State ==
  mode = "error" =>
    /\ \A kind \in ErrorKinds :
         /\ Error_new(kind).kind = kind
         /\ Error_new(kind).message = <<>>
         /\ Error_new(kind).span = <<0, 0>>
         /\ Error_new(kind).labels = <<>>
         /\ Error_to_string(Error_new(kind)) = <<kind, ": ">>
    /\ \A content \in SomeMessages :
         /\ with_message(err, content).message = content
         /\ SameBut(with_message(err, content), err, "message")
    /\ \A span \in SomeSpans :
         /\ with_span(err, span[1], span[2]).span = span
         /\ SameBut(with_span(err, span[1], span[2]), err, "span")
    /\ \A label \in SomeLabels :
         /\ with_label(err, label).labels = err.labels \o <<label>>
         /\ SameBut(with_label(err, label), err, "labels")

C22_Step ==
  mode = "error" =>
    /\ err'.kind = err.kind
    /\ Len(err'.labels) >= Len(err.labels)
    /\ SubSeq(err'.labels, 1, Len(err.labels)) = err.labels

C22_ErrorBuilders == []C22_State /\ [][C22_Step]_vars

C22_Witness ==
  /\ mode = "error"
  /\ err.kind = "FreeIdentifier"
  /\ err.message = <<"Failed to resolve '", "a", "'.">>
  /\ err.span = <<1, 2>>
  /\ Len(err.labels) = 2
  /\ err.labels[1].order = 1
  /\ err.labels[2].order = 0

----------------------------------------------------------------------------
\* C23: for every source text on which parsing fails, parse (ending in
\* report_error) and try_parse (returning the error) describe the same error:
\* same kind and code, message, primary span and label, and the same secondary
\* labels in the same order.
Failed(o) == o \in {"Err", "Exit"}

BothModesRan ==
  /\ pc = "done"
  /\ {mode, earlier.mode} = {"parse", "try_parse"}
  /\ outcome # "Panic"
  /\ earlier.outcome # "Panic"

C23_SameDiagnostic ==
  (BothModesRan /\ (Failed(outcome) \/ Failed(earlier.outcome))) =>
    /\ Failed(outcome)
    /\ Failed(earlier.outcome)
    /\ err = earlier.err
    /\ report = earlier.report

----------------------------------------------------------------------------
\* Vocabulary of the command-line claims

\* args[k] names a flag of the command / an interrupt flag of the command.
IsFlagAt(k) == contains_key(command.args, args[k])

IsInterruptAt(k) == IsFlagAt(k) /\ command.args[args[k]].interrupt

\* args[k] follows a flag that takes a parameter (so it may be that parameter).
FollowsParameterized(k) ==
  /\ k > 1
  /\ IsFlagAt(k - 1)
  /\ command.args[args[k - 1]].parameterized.kind # "No"

\* args[k] is the first argument that names an interrupt flag.
FirstInterruptAt(k) ==
  /\ k \in 1..Len(args)
  /\ IsInterruptAt(k)
  /\ \A j \in 1..(k - 1) : ~IsInterruptAt(j)

\* The key a flag is entered under: its id without the leading "--".
KeyOf(arg) == StrFrom(arg.id, 2)

\* The parameter the flag at args[k] is said to get.
ParameterAt(k) ==
  LET arg == command.args[args[k]]
  IN IF arg.parameterized.kind = "No" THEN <<>>
     ELSE IF k < Len(args) THEN args[k + 1]
     ELSE arg.parameterized.default

----------------------------------------------------------------------------
\* C24: match_with stops at the first argument that names an interrupt flag
\* and returns Ok at once: the result maps that flag's id without "--" to its
\* parameter (the next argument if there is one, else the default of an
\* Optional parameter; "" for a flag without parameter), and no flag that
\* appears after the interrupting one is in the result.  (Stated for a first
\* interrupt flag that does not directly follow a flag taking a parameter, and
\* whose own parameter, if Required, is there.)
C24_InterruptReturns ==
  pc = "done" =>
    \A k \in 1..Len(args) :
      ( /\ FirstInterruptAt(k)
        /\ ~FollowsParameterized(k)
        /\ (command.args[args[k]].parameterized.kind = "Required" => k < Len(args)) )
      => /\ matched.res = "Ok"
         /\ contains_key(matched.results, KeyOf(command.args[args[k]]))
         /\ matched.results[KeyOf(command.args[args[k]])] = ParameterAt(k)
         /\ \A j \in (k + 1)..Len(args) :
              ( /\ IsFlagAt(j)
                /\ \A i \in 1..k : IsFlagAt(i) =>
                     KeyOf(command.args[args[i]]) # KeyOf(command.args[args[j]]) )
              => ~contains_key(matched.results, KeyOf(command.args[args[j]]))

----------------------------------------------------------------------------
\* How a command line reads, argument by argument from args[i] on: a flag that
\* takes a parameter is followed by that parameter, every other argument that
\* names no flag is a positional parameter.
RECURSIVE FlagPlaces(_)
FlagPlaces(i) ==
  IF i > Len(args) THEN {}
  ELSE IF ~IsFlagAt(i) THEN FlagPlaces(i + 1)
  ELSE IF command.args[args[i]].parameterized.kind = "No" THEN {i} \cup FlagPlaces(i + 1)
  ELSE {i} \cup FlagPlaces(i + 2)

RECURSIVE PositionalPlaces(_)
PositionalPlaces(i) ==
  IF i > Len(args) THEN {}
  ELSE IF ~IsFlagAt(i) THEN {i} \cup PositionalPlaces(i + 1)
  ELSE IF command.args[args[i]].parameterized.kind = "No" THEN PositionalPlaces(i + 1)
  ELSE PositionalPlaces(i + 2)

\* The positional args of the command that are required.
RequiredPositionals == {j \in 1..Len(command.pos_args) : ~command.pos_args[j].optional}

FewerPositionalsThanRequired ==
  Cardinality(PositionalPlaces(1)) < Cardinality(RequiredPositionals)

NoInterruptFlag == \A k \in FlagPlaces(1) : ~IsInterruptAt(k)

\* The last argument is a flag whose Required parameter is therefore missing.
RequiredParameterMissing ==
  /\ Len(args) \in FlagPlaces(1)
  /\ command.args[args[Len(args)]].parameterized.kind = "Required"

\* match_with returned the Err that names a required positional arg.
ReportsRequiredNotFound ==
  /\ matched.res = "Err"
  /\ matched.err.kind = CommandFailed
  /\ \E j \in RequiredPositionals :
       matched.err.message = required_not_found(command.pos_args[j].id)

\* Ok is returned only with every required positional arg given a value, or at
\* an interrupt flag.
OkOnlyIfSatisfied ==
  matched.res = "Ok" =>
    \/ matched.interrupted
    \/ \A j \in RequiredPositionals :
         contains_key(matched.results, command.pos_args[j].id)

\* C25 as stated: whenever the arguments supply fewer positional parameters
\* than the command has required positional args and no interrupt flag cut the
\* matching short, match_with returns Err with the message "Error: Required
\* argument '<id>' was not found." naming a required positional arg; and it
\* returns Ok only if every required positional arg got a value or an
\* interrupt flag was matched.
C25_Original ==
  pc = "done" =>
    /\ (FewerPositionalsThanRequired /\ NoInterruptFlag) => ReportsRequiredNotFound
    /\ OkOnlyIfSatisfied

\* C25 (amended): the same, except when the last argument is a flag with a
\* Required parameter: match_with then panics ("Error: Parameter not found.")
\* instead of returning.
C25_RequiredPositional ==
  pc = "done" =>
    /\ (FewerPositionalsThanRequired /\ NoInterruptFlag /\ ~RequiredParameterMissing)
         => ReportsRequiredNotFound
    /\ OkOnlyIfSatisfied

\* match_with(vec![]) on the command of command_match_with_2, and main's
\* command given only --target x.
C25_Witness ==
  /\ pc = "done"
  /\ \/ command = TestCommand2 /\ args = <<>>
     \/ command = MainCommand /\ args = <<Str_target, <<"x">> >>
  /\ matched.res = "Err"
  /\ matched.err.message = required_not_found(Str_script)

----------------------------------------------------------------------------
\* The path from `path` down through the last child of each list, n times:
\* <<p>> when every node on the way is a non-empty List, <<>> when not.
RECURSIVE DownLast(_, _, _)
DownLast(t, path, n) ==
  IF n = 0 THEN <<path>>
  ELSE LET node == NodeAt(t, path)
       IN IF node.kind # "List" \/ node.items = <<>> THEN <<>>
          ELSE DownLast(t, Append(path, Len(node.items)), n - 1)

\* Between two tokens of parse/try_parse.
BetweenTokens == mode \in {"parse", "try_parse"} /\ pc = "tokens" /\ outcome = "Running"

C26_State ==
  BetweenTokens =>
    /\ DownLast(tree, <<>>, nest.depth) = <<current>>
    /\ NodeAt(tree, current).kind = "List"
    /\ Len(current) = Len(nest.stack)

C26_Step ==
  (BetweenTokens /\ tree' # tree) =>
    LET items == NodeAt(tree', current).items
    IN tree' = AppendAt(tree, current, items[Len(items)])

\* C26: after every token parse/try_parse has processed, the cursor is the
\* List opened by the opener on top of the stack, or the root when the stack is
\* empty: it is the node reached from the root by following the last child
\* depth times, that node exists and is a List, and whatever the next token
\* adds to the tree is appended to it.
C26_CursorIsInnermostOpen == []C26_State /\ [][C26_Step]_vars

\* "(()a" after its four tokens: the cursor is the outer list, which now holds
\* the closed inner list and the symbol.
C26_Witness ==
  /\ BetweenTokens
  /\ tk = 4
  /\ nest.depth = 1
  /\ current = <<1>>
  /\ tree = List(<<List(<<List(<<>>), Symbol(<<"a">>)>>)>>)

----------------------------------------------------------------------------
\* Between two tokens of parse, try_parse or parse_untraced (before the first
\* and after the last one included).
TokenBoundary == pc \in {"tokens", "untraced"} /\ outcome = "Running"

\* C27: at every boundary between the token steps of parse, try_parse and
\* parse_untraced the depth counter equals the number of openers on the stack
\* and is not negative; so the check at the end of the input finds depth != 0
\* only with an opener on the stack, whose unwrap cannot fail.
C27_DepthIsStackHeight ==
  TokenBoundary =>
    /\ nest.depth = Len(nest.stack)
    /\ nest.depth >= 0
    /\ (pc = "tokens" /\ tk = Len(Tokens) /\ unbalanced(nest)) => nest.stack # <<>>

\* The end of "(()a" in try_parse, with one opener left on the stack (the
\* case the end check reports), and the same boundary in parse_untraced.
C27_Witness ==
  /\ TokenBoundary
  /\ tk = Len(Tokens)
  /\ tk = 4
  /\ nest.depth = 1
  /\ Len(nest.stack) = 1
  /\ \/ mode = "try_parse" /\ unbalanced(nest)
     \/ mode = "parse_untraced"

----------------------------------------------------------------------------
\* C28: every (position, token) pair of the scanner carries the position of
\* the token's first character: for a delimiter the delimiter itself, for a
\* buffered word or literal the character its text starts with.  (Stated by
\* the offset i, for texts without a backslash, whose tokens are slices of the
\* text.)
C28_PositionOfFirstCharacter ==
  (\A j \in 1..Len(source) : source[j] # Backslash) =>
    \A k \in 1..Len(lexer.results) :
      LET r == lexer.results[k]
      IN /\ r.pos.i \in 1..Len(source)
         /\ source[r.pos.i] = r.text[1]
         /\ SubSeq(source, r.pos.i, r.pos.i + Len(r.text) - 1) = r.text

----------------------------------------------------------------------------
\* C29: for every token that starts with a quote character, try_parse either
\* appends a String node holding the token without its first and last
\* character (when the last character equals the first) or returns an
\* InvalidSyntax error (when they differ); it never panics, a token that is a
\* single quote character included.
\* try_parse is at a token that starts with a quote character.
AtQuotedToken == HasToken /\ mode = "try_parse" /\ first_quoted(Tok.text)

C29_QuotedTokenStep ==
  (AtQuotedToken /\ <<tk, outcome>>' # <<tk, outcome>>) =>
    /\ outcome' # "Panic"
    /\ IF Tok.text[Len(Tok.text)] = Tok.text[1]
       THEN /\ outcome' = "Running"
            /\ tree' = AppendAt(tree, current,
                                String(SubSeq(Tok.text, 2, Len(Tok.text) - 1)))
       ELSE /\ outcome' = "Err"
            /\ err'.kind = "InvalidSyntax"

C29_QuotedTokenNeverPanics == [][C29_QuotedTokenStep]_vars

----------------------------------------------------------------------------
\* parse_untraced has run over the tokens of a text that try_parse accepted.
UntracedAfterAccepted ==
  /\ mode = "parse_untraced"
  /\ pc = "done"
  /\ earlier.mode = "try_parse"
  /\ earlier.outcome = "Ok"

\* C30: for every quote-free text that try_parse accepts, parse_untraced over
\* the scanner's token list of that text builds a tree structurally equal to
\* the tree of try_parse.
C30_UntracedAgrees ==
  (UntracedAfterAccepted /\ QuoteFree(source)) =>
    /\ outcome = "Ok"
    /\ tree = earlier.tree

\* "(a)a": both build List[List[a], a].
C30_Witness ==
  /\ UntracedAfterAccepted
  /\ source = <<"(", "a", ")", "a">>
  /\ tree = List(<<List(<<Symbol(<<"a">>)>>), Symbol(<<"a">>)>>)
  /\ earlier.tree = tree

----------------------------------------------------------------------------
\* The positional parameters of the command line, in order, from args[i] on.
RECURSIVE Positionals(_)
Positionals(i) ==
  IF i > Len(args) THEN <<>>
  ELSE IF ~IsFlagAt(i) THEN <<args[i]>> \o Positionals(i + 1)
  ELSE IF command.args[args[i]].parameterized.kind = "No" THEN Positionals(i + 1)
  ELSE Positionals(i + 2)

\* A command line without interrupt flag that asks for nothing match_with
\* refuses: no Required parameter is missing, and the positional parameters
\* are at least the required and at most all positional args.
Matchable ==
  /\ NoInterruptFlag
  /\ ~RequiredParameterMissing
  /\ Len(Positionals(1)) >= Cardinality(RequiredPositionals)
  /\ Len(Positionals(1)) <= Len(command.pos_args)

\* Every element of args is accounted for in the result: each flag under its
\* key, each positional parameter under the positional arg of its rank.
AllAccounted ==
  /\ matched.res = "Ok"
  /\ \A k \in FlagPlaces(1) : contains_key(matched.results, KeyOf(command.args[args[k]]))
  /\ \A n \in 1..Len(Positionals(1)) :
       /\ contains_key(matched.results, command.pos_args[n].id)
       /\ matched.results[command.pos_args[n].id] = Positionals(1)[n]

\* C31: when no interrupt flag is matched, match_with accounts for every
\* element of its argument list: each is matched as a flag, consumed as the
\* parameter of the parameterized flag just before it, or collected as a
\* positional parameter; the arguments after a parameterized flag and its
\* parameter are still matched.
C31_EveryArgumentAccounted ==
  (pc = "done" /\ Matchable) => AllAccounted

----------------------------------------------------------------------------
\* args[j] and args[k], j before k, name the same flag, which is no interrupt
\* flag; no flag before args[k] takes a parameter or interrupts, so the loop
\* over the arguments matches both.
MatchedTwice(j, k) ==
  /\ j < k
  /\ IsFlagAt(j)
  /\ IsFlagAt(k)
  /\ command.args[args[j]].id = command.args[args[k]].id
  /\ ~command.args[args[k]].interrupt
  /\ \A i \in 1..(k - 1) :
       IsFlagAt(i) => /\ command.args[args[i]].parameterized.kind = "No"
                      /\ ~command.args[args[i]].interrupt

\* C32: match_with never returns Ok for an argument list in which the same
\* non-interrupt flag is matched twice: the second occurrence is found to be a
\* duplicate and the call aborts (the panic "Duplicate parameter of ..."),
\* the first value is not overwritten.
C32_DuplicateFlagAborts ==
  (pc = "done" /\ \E j, k \in 1..Len(args) : MatchedTwice(j, k)) =>
    /\ matched.res # "Ok"
    /\ matched.res = "Panic"

====
